---------------------------- MODULE Spec2Model ----------------------------
(***************************************************************************)
(* A model of skiller: skill discovery (core.discover_skills_in_tree),     *)
(* installation (core.copy_skill_tree, commands/install.py) and removal    *)
(* (commands/remove.py) over a POSIX filesystem.                           *)
(*                                                                         *)
(* A path string is the sequence of its segments between "/" characters:   *)
(*   "/w/a" = <<"", "w", "a">>   "a/b/" = <<"a", "b", "">>                 *)
(*   "/"    = <<"", "">>         ""     = <<"">>       "~/x" = <<"~","x">> *)
(* so that len(p.split("/")) - 1 = p.count("/").  A filesystem is a        *)
(* function from the component sequences of the existing absolute paths    *)
(* (<<>> is the root directory) to nodes.                                  *)
(***************************************************************************)
EXTENDS Integers, Sequences, FiniteSets, TLC

VARIABLES fs,      \* the filesystem
          config,  \* the configuration dictionary handed to the commands
          op,      \* the operation that ran last ("init" before any)
          args,    \* its arguments
          pre,     \* the filesystem before it ran
          res      \* what it returned, raised and printed

vars == <<fs, config, op, args, pre, res>>

(***************************************************************************)
(* Bounds of the model.                                                    *)
(***************************************************************************)
\* Depth of the deepest directory of the discovery trees below the base.
MaxTreeDepth == 4

\* Lines of the longest file handed to parse_frontmatter.
MaxLines == 4
MaxItems == 2

(***************************************************************************)
(* The process environment: os.getcwd() and $HOME.                         *)
(***************************************************************************)
Cwd == <<"", "w">>
Home == <<"", "h">>

\* The order in which a directory's entries are listed.
NameOrder ==
    <<"SKILL.md", "a", "b", "cl", "cx", "etc", "h", "oc", "s1", "s2", "sk", "w">>

(***************************************************************************)
(* posixpath                                                               *)
(***************************************************************************)
Front(s) == SubSeq(s, 1, Len(s) - 1)
Last(s) == s[Len(s)]

\* p.startswith("/")
isabs(p) == Len(p) >= 2 /\ p[1] = ""

\* p.endswith("/")
EndsWithSep(p) == Len(p) >= 2 /\ Last(p) = ""

\* os.path.join(a, b)
join(a, b) ==
    IF isabs(b) THEN b
    ELSE IF a = <<"">> \/ EndsWithSep(a) THEN Front(a) \o b
    ELSE a \o b

\* os.path.basename(p): what follows the last "/"
basename(p) == Last(p)

\* os.path.expanduser(p), for "~" and "~/..."
expanduser(p) == IF p[1] = "~" THEN Home \o Tail(p) ELSE p

\* p.rstrip(os.sep)
RECURSIVE rstrip(_)
rstrip(p) == IF EndsWithSep(p) THEN rstrip(Front(p)) ELSE p

\* p.count(os.sep)
count(p) == Len(p) - 1

\* The components left by os.path.normpath: "" and "." dropped, ".." resolved
\* lexically.
RECURSIVE NormComps(_, _)
NormComps(acc, segs) ==
    IF segs = <<>> THEN acc
    ELSE LET s == Head(segs) IN
         IF s = "" \/ s = "." THEN NormComps(acc, Tail(segs))
         ELSE IF s = ".."
              THEN NormComps(IF acc = <<>> THEN acc ELSE Front(acc), Tail(segs))
              ELSE NormComps(Append(acc, s), Tail(segs))

\* os.path.abspath(p) = normpath(join(os.getcwd(), p))
abspath(p) ==
    LET c == NormComps(<<>>, join(Cwd, p))
    IN  IF c = <<>> THEN <<"", "">> ELSE <<"">> \o c

(***************************************************************************)
(* The filesystem.                                                         *)
(***************************************************************************)
Dir == [kind |-> "dir", lines |-> <<>>, nl |-> FALSE]
File(content) == [kind |-> "file", lines |-> content.lines, nl |-> content.nl]

\* Directories below /etc belong to root: no entry can be created or deleted.
ReadOnly(k) == Len(k) >= 1 /\ k[1] = "etc"

IsPrefix(k, q) == Len(k) <= Len(q) /\ SubSeq(q, 1, Len(k)) = k

\* The kernel's path resolution from the node `cur`: every intermediate
\* component must be a directory.
RECURSIVE Walk(_, _, _)
Walk(f, cur, segs) ==
    IF segs = <<>> THEN [ok |-> TRUE, at |-> cur]
    ELSE LET s == Head(segs) IN
         IF f[cur].kind # "dir" THEN [ok |-> FALSE, at |-> cur]
         ELSE IF s = "" \/ s = "." THEN Walk(f, cur, Tail(segs))
         ELSE IF s = ".."
              THEN Walk(f, IF cur = <<>> THEN cur ELSE Front(cur), Tail(segs))
         ELSE IF Append(cur, s) \in DOMAIN f
              THEN Walk(f, Append(cur, s), Tail(segs))
              ELSE [ok |-> FALSE, at |-> cur]

Resolve(f, p) ==
    IF p = <<"">> THEN [ok |-> FALSE, at |-> <<>>]
    ELSE IF isabs(p) THEN Walk(f, <<>>, Tail(p))
    ELSE Walk(f, NormComps(<<>>, Cwd), p)

\* os.path.exists, os.path.isdir: r is what the path resolves to.
IsKind(f, r, kind) == r.ok /\ f[r.at].kind = kind
exists(f, p) == Resolve(f, p).ok
isdir(f, p) == IsKind(f, Resolve(f, p), "dir")

\* The names of the entries of the directory at key k, in listing order.
Entries(f, k, kind) ==
    SelectSeq(NameOrder,
              LAMBDA n : Append(k, n) \in DOMAIN f /\ f[Append(k, n)].kind = kind)

(***************************************************************************)
(* SKILL.md contents.  A file is its lines and whether the last line ends  *)
(* with "\n".  A line is a record: the delimiter "---", a YAML             *)
(* "key: value" pair (v = "" is the null value of "key:"), a YAML list     *)
(* item "- x", a line YAML cannot parse, or markdown text.                 *)
(***************************************************************************)
Delim == [t |-> "delim", k |-> "", v |-> ""]
KV(key, val) == [t |-> "kv", k |-> key, v |-> val]
Item == [t |-> "item", k |-> "", v |-> ""]
Bad == [t |-> "bad", k |-> "", v |-> ""]
Text == [t |-> "text", k |-> "", v |-> ""]

Content(ls) == [lines |-> ls, nl |-> TRUE]

\* yaml.safe_load of the text made of `ls`: ok is FALSE when it raises, isMap
\* says whether the document is a mapping, map is the mapping.
RECURSIVE MapOf(_, _)
MapOf(acc, ls) ==
    IF ls = <<>> THEN acc
    ELSE MapOf([x \in DOMAIN acc \cup {Head(ls).k} |->
                   IF x = Head(ls).k THEN Head(ls).v ELSE acc[x]],
               Tail(ls))

EmptyMap == [x \in {} |-> ""]

safe_load(ls) ==
    LET body == IF ls # <<>> /\ Head(ls).t = "delim" THEN Tail(ls) ELSE ls
        kinds == {body[i].t : i \in DOMAIN body}
    IN  IF kinds = {"kv"}
        THEN [ok |-> TRUE, isMap |-> TRUE, map |-> MapOf(EmptyMap, body)]
        ELSE IF kinds \subseteq {"item"} \/ kinds = {"text"}
        THEN [ok |-> TRUE, isMap |-> FALSE, map |-> EmptyMap]
        ELSE [ok |-> FALSE, isMap |-> FALSE, map |-> EmptyMap]

\* A line i is followed by "\n".
Terminated(c, i) == i < Len(c.lines) \/ c.nl

\* content.find("\n---\n", 4): the first line j, not before the third (the
\* "\n" that ends line 1 is at index 3), that is "---" and ends with "\n".
\* 0 when there is none.
FindClose(c) ==
    LET js == {j \in 3..Len(c.lines) : c.lines[j].t = "delim" /\ Terminated(c, j)}
    IN  IF js = {} THEN 0 ELSE CHOOSE j \in js : \A i \in js : j <= i

None == [some |-> FALSE, map |-> EmptyMap]
Some(m) == [some |-> TRUE, map |-> m]

\* The return of parse_frontmatter for what yaml.safe_load gave: the
\* exception is caught, and a document that is not a dict is None.
Loaded(parsed) == IF parsed.ok /\ parsed.isMap THEN Some(parsed.map) ELSE None

\* parse_frontmatter of a readable file with content c, end_idx being the
\* line found by content.find.
Between(c, end_idx) ==
    IF end_idx = 0 THEN None ELSE Loaded(safe_load(SubSeq(c.lines, 2, end_idx - 1)))

parse_content(c) ==
    IF ~(Len(c.lines) >= 1 /\ c.lines[1].t = "delim" /\ Terminated(c, 1))
    THEN None
    ELSE Between(c, FindClose(c))

\* parse_frontmatter(file_path), file_path resolving to r: None when open()
\* or read() raises.
ReadFrontmatter(f, r) == IF IsKind(f, r, "file") THEN parse_content(f[r.at]) ELSE None

parse_frontmatter(f, p) == ReadFrontmatter(f, Resolve(f, p))

\* fm.get(key), with "" for None
get(m, key) == IF key \in DOMAIN m THEN m[key] ELSE ""

\* `not fm`: None or an empty mapping
Falsy(fm) == ~fm.some \/ DOMAIN fm.map = {}

\* SKILL.md files: complete frontmatter; no name; an empty name; no
\* description; an empty description; no frontmatter; a closing delimiter
\* with no "\n" after it; frontmatter YAML cannot parse; frontmatter that
\* is a list; an empty frontmatter block followed by "key: value" text and a
\* horizontal rule.
Samples ==
    << Content(<<Delim, KV("name", "alpha"), KV("description", "d"), Delim, Text>>),
       Content(<<Delim, KV("description", "d"), Delim, Text>>),
       Content(<<Delim, KV("name", ""), KV("description", "d"), Delim>>),
       Content(<<Delim, KV("name", "beta"), Delim, Text>>),
       Content(<<Delim, KV("name", "beta"), KV("description", ""), Delim>>),
       Content(<<Text, Text>>),
       [lines |-> <<Delim, KV("description", "d"), Delim>>, nl |-> FALSE],
       Content(<<Delim, KV("description", "d"), Bad, Delim>>),
       Content(<<Delim, Item, Delim, Text>>),
       Content(<<Delim, Delim, KV("description", "d"), Delim>>) >>

\* No arguments, no result: before an operation has run.
NoArgs == [none |-> TRUE]
NoRes == [none |-> TRUE]

(***************************************************************************)
(* core.discover_skills_in_tree                                            *)
(***************************************************************************)
RECURSIVE CommonLen(_, _)
CommonLen(a, b) ==
    IF a = <<>> \/ b = <<>> \/ Head(a) # Head(b) THEN 0
    ELSE 1 + CommonLen(Tail(a), Tail(b))

\* os.path.relpath(path, start): start_list and path_list are the
\* components of the two absolute paths, i the length of their common prefix.
RelList(start_list, path_list, i) ==
    [n \in 1..(Len(start_list) - i) |-> ".."]
    \o SubSeq(path_list, i + 1, Len(path_list))

OrCurdir(rel_list) == IF rel_list = <<>> THEN <<".">> ELSE rel_list

RelBetween(start_list, path_list) ==
    OrCurdir(RelList(start_list, path_list, CommonLen(start_list, path_list)))

relpath(path, start) ==
    RelBetween(NormComps(<<>>, join(Cwd, start)), NormComps(<<>>, join(Cwd, path)))

\* _format_relative_path(path, base_dir), rel_path being the relpath
Formatted(rel_path) ==
    IF rel_path = <<".">> THEN <<".", "">>
    ELSE IF Len(rel_path) >= 2 /\ rel_path[1] = ".." THEN rel_path
    ELSE IF rel_path[1] # "." THEN <<".">> \o rel_path
    ELSE rel_path

format_relative_path(path, base_dir) == Formatted(relpath(path, base_dir))

\* The entry discover_skills_in_tree appends for the directory `root` (a path
\* string) whose SKILL.md parsed to the mapping m.  The values of the model
\* hold no "\n", so replace("\n", " ") leaves them as they are.
SkillEntry(root, m, base) ==
    [name |-> IF get(m, "name") # "" THEN get(m, "name") ELSE basename(root),
     description |-> get(m, "description"),
     path |-> root,
     rel_path |-> format_relative_path(root, base),
     folder_name |-> basename(root)]

\* What the os.walk loop appends for a directory whose SKILL.md parsed to fm.
Appended(root, fm, base) ==
    IF Falsy(fm) THEN <<>>
    ELSE IF get(fm.map, "description") = "" THEN <<>>
    ELSE <<SkillEntry(root, fm.map, base)>>

\* The body of the os.walk loop for one directory (at key k): "SKILL.md" in
\* files holds for every entry that is not a directory.
Visit(f, root, k, base) ==
    IF Append(k, "SKILL.md") \notin DOMAIN f \/ f[Append(k, "SKILL.md")].kind = "dir"
    THEN <<>>
    ELSE Appended(root, parse_frontmatter(f, join(root, <<"SKILL.md">>)), base)

\* An off-by-one depth test: the directories at max_depth are skipped.
TooDeep_AtLimit(depth, max_depth) == depth >= max_depth

\* `depth > max_depth`
TooDeep(depth, max_depth) == depth > max_depth

\* os.walk(top), top-down: the directory root (at key k), then its
\* subdirectories; a directory deeper than max_depth is skipped with its
\* subdirectories pruned (dirs[:] = []).
RECURSIVE WalkDir(_, _, _, _, _)
RECURSIVE WalkDirs(_, _, _, _, _, _)
WalkDir(f, root, k, base, max_depth) ==
    IF TooDeep(count(rstrip(root)) - count(rstrip(base)), max_depth) THEN <<>>
    ELSE Visit(f, root, k, base)
         \o WalkDirs(f, root, k, Entries(f, k, "dir"), base, max_depth)

WalkDirs(f, root, k, names, base, max_depth) ==
    IF names = <<>> THEN <<>>
    ELSE WalkDir(f, join(root, <<Head(names)>>), Append(k, Head(names)),
                 base, max_depth)
         \o WalkDirs(f, root, k, Tail(names), base, max_depth)

discover_skills_in_tree(f, base_dir, max_depth) ==
    LET base_dir_exp == expanduser(base_dir)
    IN  IF ~isdir(f, base_dir_exp) THEN <<>>
        ELSE WalkDir(f, base_dir_exp, Resolve(f, base_dir_exp).at,
                     base_dir_exp, max_depth)

(***************************************************************************)
(* os.makedirs, shutil.copytree, shutil.rmtree                             *)
(***************************************************************************)
\* os.makedirs from the node `cur`: every missing component is created; it
\* raises (ok = FALSE) on a component that is not a directory and on a
\* directory it may not write to.
RECURSIVE MkWalk(_, _, _)
MkWalk(f, cur, segs) ==
    IF f[cur].kind # "dir" THEN [ok |-> FALSE, fs |-> f]
    ELSE IF segs = <<>> THEN [ok |-> TRUE, fs |-> f]
    ELSE LET s == Head(segs) IN
         IF s = "" \/ s = "." THEN MkWalk(f, cur, Tail(segs))
         ELSE IF s = ".."
              THEN MkWalk(f, IF cur = <<>> THEN cur ELSE Front(cur), Tail(segs))
         ELSE IF Append(cur, s) \in DOMAIN f
              THEN MkWalk(f, Append(cur, s), Tail(segs))
         ELSE IF ReadOnly(cur) THEN [ok |-> FALSE, fs |-> f]
         ELSE MkWalk((Append(cur, s) :> Dir) @@ f, Append(cur, s), Tail(segs))

\* os.makedirs(p, exist_ok=True)
makedirs(f, p) ==
    IF p = <<"">> THEN [ok |-> FALSE, fs |-> f]
    ELSE IF isabs(p) THEN MkWalk(f, <<>>, Tail(p))
    ELSE MkWalk(f, NormComps(<<>>, Cwd), p)

\* The nodes below the directory at key sk, re-rooted at key dk.
Moved(f, sk, dk) ==
    LET below == {q \in DOMAIN f : IsPrefix(sk, q) /\ q # sk}
    IN  [k \in {dk \o SubSeq(q, Len(sk) + 1, Len(q)) : q \in below} |->
            f[sk \o SubSeq(k, Len(dk) + 1, Len(k))]]

\* shutil.copytree(src, dst): lists src, creates dst (which must not exist)
\* and copies the tree; ok = FALSE when it raises OSError.  A dst inside src
\* makes copytree descend into its own output until a path is too long: it
\* is modelled as the error it ends with, dst created.
CopyAt(f, made, sk, dk) ==
    IF IsPrefix(sk, dk) THEN [ok |-> FALSE, fs |-> made]
    ELSE [ok |-> TRUE, fs |-> Moved(f, sk, dk) @@ made]

CopyMade(f, mk, src, dst) ==
    IF ~mk.ok THEN [ok |-> FALSE, fs |-> f]
    ELSE CopyAt(f, mk.fs, Resolve(f, src).at, Resolve(mk.fs, dst).at)

copytree(f, src, dst) ==
    IF ~isdir(f, src) \/ exists(f, dst) THEN [ok |-> FALSE, fs |-> f]
    ELSE CopyMade(f, makedirs(f, dst), src, dst)

\* shutil.rmtree(path), path resolving to r: the directory and everything
\* below it; ok = FALSE when it raises OSError.
RemoveAt(f, r) ==
    IF ~r.ok \/ f[r.at].kind # "dir" \/ r.at = <<>> \/ ReadOnly(Front(r.at))
    THEN [ok |-> FALSE, fs |-> f]
    ELSE [ok |-> TRUE, fs |-> [k \in {q \in DOMAIN f : ~IsPrefix(r.at, q)} |-> f[k]]]

rmtree(f, path) == RemoveAt(f, Resolve(f, path))

(***************************************************************************)
(* core.copy_skill_tree and install._copy_skill_tree_test                  *)
(***************************************************************************)
\* What a call returns and leaves: status "raised" stands for an exception
\* that leaves the function.
Outcome(status, path, f) == [status |-> status, path |-> path, fs |-> f]

\* The try block of copy_skill_tree, ct being what shutil.copytree did.
TryCopy(ct, destination_path) ==
    IF ct.ok THEN Outcome("installed", destination_path, ct.fs)
    ELSE Outcome("error", destination_path, ct.fs)

\* CopyTo with the `os.path.exists` test dropped: the copy is made over the
\* directory that is there.
CopyTo_Overwrite(f, source, destination_path) ==
    IF abspath(destination_path) = abspath(source)
    THEN Outcome("same", destination_path, f)
    ELSE IF isdir(f, destination_path) /\ isdir(f, source)
    THEN Outcome("installed", destination_path,
                 Moved(f, Resolve(f, source).at, Resolve(f, destination_path).at) @@ f)
    ELSE TryCopy(copytree(f, source, destination_path), destination_path)

\* copy_skill_tree after os.makedirs, which left the filesystem f.
CopyTo(f, source, destination_path) ==
    IF abspath(destination_path) = abspath(source)
    THEN Outcome("same", destination_path, f)
    ELSE IF exists(f, destination_path)
    THEN Outcome("exists", destination_path, f)
    ELSE TryCopy(copytree(f, source, destination_path), destination_path)

\* copy_skill_tree, mk being what os.makedirs(destination_root_exp) did: its
\* exception is not caught.
MadeRoot(f, mk, source, destination_path) ==
    IF ~mk.ok THEN Outcome("raised", <<>>, f)
    ELSE CopyTo(mk.fs, source, destination_path)

copy_skill_tree(f, source, destination_root) ==
    MadeRoot(f, makedirs(f, expanduser(destination_root)), source,
             join(expanduser(destination_root), <<basename(source)>>))

\* _copy_skill_tree_test, destination_path being the joined path.
TestStatus(f, source, destination_path) ==
    IF abspath(destination_path) = abspath(source)
    THEN Outcome("same", destination_path, f)
    ELSE IF exists(f, destination_path)
    THEN Outcome("exists", destination_path, f)
    ELSE Outcome("would_install", destination_path, f)

\* _copy_skill_tree_test with the os.makedirs of copy_skill_tree left in.
copy_skill_tree_test_Makedirs(f, source, destination_root) ==
    TestStatus(makedirs(f, expanduser(destination_root)).fs, source,
               join(expanduser(destination_root), <<basename(source)>>))

copy_skill_tree_test(f, source, destination_root) ==
    TestStatus(f, source, join(expanduser(destination_root), <<basename(source)>>))

(***************************************************************************)
(* commands/install.py                                                     *)
(***************************************************************************)
\* agent_dirs.get(agent, {}).get(path_type, [])
Targets(cfg, agent, path_type) ==
    IF agent \in DOMAIN cfg.agent_dirs THEN cfg.agent_dirs[agent][path_type]
    ELSE <<>>

\* core.prompt_agents_and_paths: the user's answers are pick_agents and
\* pick_paths, <<>> for a cancelled prompt; None is <<>> too.
prompt_agents_and_paths(cfg, default_agents, default_paths, pick_agents, pick_paths) ==
    LET selected_agents == IF default_agents # <<>> THEN default_agents ELSE pick_agents
        selected_paths == IF default_paths # <<>> THEN default_paths ELSE pick_paths
    IN  IF cfg.agents = <<>> \/ selected_agents = <<>> \/ selected_paths = <<>>
        THEN [some |-> FALSE, agents |-> <<>>, paths |-> <<>>]
        ELSE [some |-> TRUE, agents |-> selected_agents, paths |-> selected_paths]

\* The iterations of the loops of install_candidates, in order: one per
\* target, or one with none = TRUE for an agent and path type with no target.
TargetJobs(c, a, pt, targets) ==
    IF targets = <<>>
    THEN << [cand |-> c, agent |-> a, path_type |-> pt, target |-> <<>>,
             none |-> TRUE] >>
    ELSE [i \in 1..Len(targets) |->
             [cand |-> c, agent |-> a, path_type |-> pt, target |-> targets[i],
              none |-> FALSE]]

RECURSIVE PathJobs(_, _, _, _)
PathJobs(c, a, cfg, selected_paths) ==
    IF selected_paths = <<>> THEN <<>>
    ELSE TargetJobs(c, a, Head(selected_paths), Targets(cfg, a, Head(selected_paths)))
         \o PathJobs(c, a, cfg, Tail(selected_paths))

RECURSIVE AgentJobs(_, _, _, _)
AgentJobs(c, cfg, selected_agents, selected_paths) ==
    IF selected_agents = <<>> THEN <<>>
    ELSE PathJobs(c, Head(selected_agents), cfg, selected_paths)
         \o AgentJobs(c, cfg, Tail(selected_agents), selected_paths)

RECURSIVE Jobs(_, _, _, _)
Jobs(candidates, cfg, selected_agents, selected_paths) ==
    IF candidates = <<>> THEN <<>>
    ELSE AgentJobs(Head(candidates), cfg, selected_agents, selected_paths)
         \o Jobs(Tail(candidates), cfg, selected_agents, selected_paths)

\* A printed line "<what> <name> for agent '<agent>' (<path_type>) -> <target>".
Line(what, j, o) ==
    [what |-> what, name |-> j.cand.name, agent |-> j.agent,
     path_type |-> j.path_type, target |-> o.path]

\* The statuses that set installed_any.
CountsAsInstalled(test_mode, status) ==
    IF test_mode THEN status \in {"would_install", "same"}
    ELSE status = "installed"

\* The copy function install_candidates calls for one target.
CopyFor(test_mode, f, source, target) ==
    IF test_mode THEN copy_skill_tree_test(f, source, target)
    ELSE copy_skill_tree(f, source, target)

\* The word print_success, print_info or print_error starts the line with.
What(test_mode, status) ==
    IF test_mode
    THEN (IF status = "would_install" THEN "Would install" ELSE "Already installed")
    ELSE CASE status = "installed" -> "Installed"
           [] status \in {"exists", "same"} -> "Already installed"
           [] OTHER -> "Failed to install"

\* One iteration of the innermost loop, o being what the copy function did.
Copied(st, j, test_mode, o) ==
    IF o.status = "raised" THEN [st EXCEPT !.raised = TRUE]
    ELSE [fs |-> o.fs,
          installed_any |-> st.installed_any \/ CountsAsInstalled(test_mode, o.status),
          had_targets |-> TRUE,
          report |-> Append(st.report, Line(What(test_mode, o.status), j, o)),
          raised |-> FALSE]

RunJob(st, j, test_mode) ==
    IF j.none THEN st
    ELSE Copied(st, j, test_mode, CopyFor(test_mode, st.fs, j.cand.path, j.target))

RECURSIVE RunJobs(_, _, _)
RunJobs(st, jobs, test_mode) ==
    IF jobs = <<>> \/ st.raised THEN st
    ELSE RunJobs(RunJob(st, Head(jobs), test_mode), Tail(jobs), test_mode)

\* What install_candidates returns after its loops: ret is "True", "False",
\* or "raised" when an exception leaves it.
Returned(st, selection) ==
    [ret |-> IF st.raised THEN "raised"
             ELSE IF st.installed_any THEN "True" ELSE "False",
     fs |-> st.fs, report |-> st.report, cancelled |-> FALSE,
     had_targets |-> st.had_targets,
     agents |-> selection.agents, paths |-> selection.paths]

\* install_candidates with the agents and path types `selection`.
Selected(f, candidates, cfg, test_mode, selection) ==
    IF ~selection.some
    THEN [ret |-> "False", fs |-> f, report |-> <<>>, cancelled |-> TRUE,
          had_targets |-> FALSE, agents |-> <<>>, paths |-> <<>>]
    ELSE Returned(RunJobs([fs |-> f, installed_any |-> FALSE,
                           had_targets |-> FALSE, report |-> <<>>,
                           raised |-> FALSE],
                          Jobs(candidates, cfg, selection.agents, selection.paths),
                          test_mode),
                  selection)

install_candidates(f, candidates, cfg, test_mode, selected_agents, selected_paths, pick_agents, pick_paths) ==
    Selected(f, candidates, cfg, test_mode,
             IF selected_agents = <<>> \/ selected_paths = <<>>
             THEN prompt_agents_and_paths(cfg, selected_agents, selected_paths,
                                          pick_agents, pick_paths)
             ELSE [some |-> TRUE, agents |-> selected_agents,
                   paths |-> selected_paths])

\* max_depth=3 at every call of the commands.
DefaultMaxDepth == 3

\* discover_skills_in_tree over every directory of `dirs`, the results
\* appended.
RECURSIVE DiscoverAll(_, _)
DiscoverAll(f, dirs) ==
    IF dirs = <<>> THEN <<>>
    ELSE discover_skills_in_tree(f, Head(dirs), DefaultMaxDepth)
         \o DiscoverAll(f, Tail(dirs))

\* The scans of install._run: the current directory, then every
\* discovery_dir.
Discovered(f, cfg) == DiscoverAll(f, <<Cwd>> \o cfg.discovery_dirs)

\* The candidates for the skill names given on the command line.
RECURSIVE Matching(_, _)
Matching(discovered, skill) ==
    IF skill = <<>> THEN <<>>
    ELSE SelectSeq(discovered,
                   LAMBDA d : d.name = Head(skill) \/ d.folder_name = Head(skill))
         \o Matching(discovered, Tail(skill))

\* The menu line of a discovered skill.
Choice(d) == <<d.name, d.rel_path, d.description>>

\* choices.index(choice)
Index(choices, choice) ==
    CHOOSE i \in DOMAIN choices :
        choices[i] = choice /\ \A j \in 1..(i - 1) : choices[j] # choice

\* _install_interactive_multi: the candidates for the menu lines the user
\* ticked (picks: their numbers, within the menu).
Picked(discovered, picks) ==
    LET choices == [i \in DOMAIN discovered |-> Choice(discovered[i])]
    IN  [i \in DOMAIN picks |-> discovered[Index(choices, choices[picks[i]])]]

\* install._run with the arguments a: the filesystem it leaves and what it
\* did.  a.skill = <<>> is the interactive selection.
NoInstall(f, discovered, candidates, test_mode) ==
    [fs |-> f,
     res |-> [discovered |-> discovered, candidates |-> candidates,
              called |-> FALSE, test_mode |-> test_mode, ret |-> "none",
              report |-> <<>>, cancelled |-> FALSE, had_targets |-> FALSE,
              agents |-> <<>>, paths |-> <<>>]]

Installed(discovered, candidates, test_mode, ic) ==
    [fs |-> ic.fs,
     res |-> [discovered |-> discovered, candidates |-> candidates,
              called |-> TRUE, test_mode |-> test_mode, ret |-> ic.ret,
              report |-> ic.report, cancelled |-> ic.cancelled,
              had_targets |-> ic.had_targets,
              agents |-> ic.agents, paths |-> ic.paths]]

\* install._run from the candidates on: nothing to install, or
\* install_candidates with the agent and path type of the command line.
WithCandidates(f, cfg, a, discovered, candidates, test_mode, agents, paths) ==
    IF candidates = <<>> THEN NoInstall(f, discovered, candidates, a.test)
    ELSE Installed(discovered, candidates, test_mode,
                   install_candidates(f, candidates, cfg, test_mode, agents, paths,
                                      a.pick_agents, a.pick_paths))

WithDiscovered(f, cfg, a, discovered) ==
    IF discovered = <<>> THEN NoInstall(f, discovered, <<>>, a.test)
    ELSE IF a.skill # <<>>
    THEN WithCandidates(f, cfg, a, discovered, Matching(discovered, a.skill), a.test,
                        IF a.agent # "" THEN <<a.agent>> ELSE <<>>,
                        IF a.path_type # "" THEN <<a.path_type>> ELSE <<>>)
    ELSE WithCandidates(f, cfg, a, discovered, Picked(discovered, a.picks),
                        a.test \/ a.pick_test, <<>>, <<>>)

install_run(f, cfg, a) == WithDiscovered(f, cfg, a, Discovered(f, cfg))

(***************************************************************************)
(* commands/remove.py                                                      *)
(***************************************************************************)
\* The entry _find_installed_skills appends for the directory `item` of the
\* agent directory path_expanded, fm being what its SKILL.md parsed to (None
\* when there is no such file).
InstalledEntry(agent_name, path_type, path_expanded, item, fm) ==
    [name |-> IF ~Falsy(fm) /\ get(fm.map, "name") # ""
              THEN get(fm.map, "name") ELSE item,
     folder_name |-> item,
     agent |-> agent_name,
     path_type |-> path_type,
     path |-> path_expanded,
     full_path |-> join(path_expanded, <<item>>),
     description |-> IF ~Falsy(fm) /\ get(fm.map, "description") # ""
                     THEN get(fm.map, "description") ELSE "(no description)"]

\* The loop over os.listdir(path_expanded): `items` are the entries that are
\* directories.
ListedEntries(f, agent_name, path_type, path_expanded, items) ==
    [i \in 1..Len(items) |->
        InstalledEntry(agent_name, path_type, path_expanded, items[i],
            parse_frontmatter(f, join(join(path_expanded, <<items[i]>>),
                                      <<"SKILL.md">>)))]

InstalledIn(f, agent_name, path_type, path_expanded) ==
    IF ~isdir(f, path_expanded) THEN <<>>
    ELSE ListedEntries(f, agent_name, path_type, path_expanded,
                       Entries(f, Resolve(f, path_expanded).at, "dir"))

RECURSIVE InstalledInPaths(_, _, _, _)
InstalledInPaths(f, agent_name, path_type, paths) ==
    IF paths = <<>> THEN <<>>
    ELSE InstalledIn(f, agent_name, path_type, expanduser(Head(paths)))
         \o InstalledInPaths(f, agent_name, path_type, Tail(paths))

RECURSIVE InstalledOfAgents(_, _, _)
InstalledOfAgents(f, cfg, agents) ==
    IF agents = <<>> THEN <<>>
    ELSE InstalledInPaths(f, Head(agents), "user", Targets(cfg, Head(agents), "user"))
         \o InstalledInPaths(f, Head(agents), "project",
                             Targets(cfg, Head(agents), "project"))
         \o InstalledOfAgents(f, cfg, Tail(agents))

find_installed_skills(f, cfg) == InstalledOfAgents(f, cfg, cfg.agents)

\* What _remove_skill returns after shutil.rmtree did rm.
TryRemove(rm) ==
    IF rm.ok THEN [status |-> "removed", fs |-> rm.fs]
    ELSE [status |-> "error", fs |-> rm.fs]

\* _remove_skill with the test_mode return dropped.
remove_skill_Always(f, skill_info, test_mode) ==
    IF ~exists(f, skill_info.full_path) THEN [status |-> "not_found", fs |-> f]
    ELSE TryRemove(rmtree(f, skill_info.full_path))

remove_skill(f, skill_info, test_mode) ==
    IF ~exists(f, skill_info.full_path) THEN [status |-> "not_found", fs |-> f]
    ELSE IF test_mode THEN [status |-> "test", fs |-> f]
    ELSE TryRemove(rmtree(f, skill_info.full_path))

\* One iteration of the `for skill in matching` loop, r being what
\* _remove_skill did.
Removed(st, skill, r) ==
    [fs |-> r.fs,
     report |-> Append(st.report,
                       [status |-> r.status, name |-> skill.name,
                        agent |-> skill.agent, path_type |-> skill.path_type,
                        full_path |-> skill.full_path])]

RECURSIVE RemoveAll(_, _, _)
RemoveAll(st, skills, test_mode) ==
    IF skills = <<>> THEN st
    ELSE RemoveAll(Removed(st, Head(skills),
                           remove_skill(st.fs, Head(skills), test_mode)),
                   Tail(skills), test_mode)

\* `if args.agent: matching = [s for s in matching if s["agent"] == args.agent]`
ByAgent(matching, agent) ==
    IF agent # "" THEN SelectSeq(matching, LAMBDA x : x.agent = agent)
    ELSE matching

\* The path type filter: "all" is no filter.
ByPathType(matching, path_type) ==
    IF path_type # "" /\ path_type # "all"
    THEN SelectSeq(matching, LAMBDA x : x.path_type = path_type)
    ELSE matching

\* What _run leaves after the removal loop.
Finished(st) == [fs |-> st.fs, report |-> st.report, message |-> ""]

\* The removal loop over `matching`; message is what is printed when there
\* is nothing to do.
RemoveMatching(f, matching, test_mode, message) ==
    IF matching = <<>> THEN [fs |-> f, report |-> <<>>, message |-> message]
    ELSE Finished(RemoveAll([fs |-> f, report |-> <<>>], matching, test_mode))

\* remove._run for a skill named on the command line, `matching` being the
\* installed skills of that name.
RemoveNamed(f, a, matching) ==
    IF matching = <<>>
    THEN [fs |-> f, report |-> <<>>,
          message |-> "not found in any installation location"]
    ELSE RemoveMatching(f, ByPathType(ByAgent(matching, a.agent), a.path_type),
                        a.test, "not found in specified location")

\* remove._run with the skills _find_installed_skills returned.  a.skill = ""
\* is the interactive selection, a.names the names the user ticked.
RemoveFound(f, a, skills) ==
    IF a.skill # ""
    THEN RemoveNamed(f, a, SelectSeq(skills,
                LAMBDA x : x.name = a.skill \/ x.folder_name = a.skill))
    ELSE IF skills = <<>>
    THEN [fs |-> f, report |-> <<>>, message |-> "No installed skills found."]
    ELSE RemoveMatching(f, SelectSeq(skills, LAMBDA x : x.name \in a.names),
                        a.test, "")

remove_run(f, cfg, a) == RemoveFound(f, a, find_installed_skills(f, cfg))

(***************************************************************************)
(* The configuration: builtin DEFAULT_CONFIG scaled down ("default" and    *)
(* "opencode" share their directories, "codex" has a second user directory *)
(* below /etc), with the discovery_dirs dd.                                *)
(***************************************************************************)
ModelConfig(dd) ==
    [agents |-> <<"default", "opencode", "claude", "codex">>,
     agent_dirs |->
        [a \in {"default", "opencode", "claude", "codex"} |->
            CASE a \in {"default", "opencode"} ->
                    [user |-> << <<"~", "oc">> >>, project |-> << <<"oc">> >>]
              [] a = "claude" ->
                    [user |-> << <<"~", "cl">> >>, project |-> << <<"cl">> >>]
              [] OTHER ->
                    [user |-> << <<"~", "cx">>, <<"", "etc", "cx">> >>,
                     project |-> << <<"cx">> >>]],
     discovery_dirs |-> dd]

\* discovery_dirs: none; a skills directory; the same with one of its
\* skill directories listed too.
DiscoveryDirs ==
    { <<>>,
      << <<"~", "sk">> >>,
      << <<"~", "sk">>, <<"", "h", "sk", "s2", "">> >> }

(***************************************************************************)
(* Filesystems and inputs of the install and remove specifications.        *)
(***************************************************************************)
NoFiles == [k \in {} |-> Content(<<>>)]

MakeFS(dirs, files) ==
    [k \in dirs \cup DOMAIN files |-> IF k \in dirs THEN Dir ELSE File(files[k])]

\* A working directory /w with the skill s1 ("alpha"), a skills directory
\* ~/sk with the skill s2, and by `v`: "same": s1 is installed in the
\* project directory oc; "exists": an older s1 is installed in ~/oc; "file":
\* the project directory cl is a regular file; "etc": /etc/cx exists.
InstallFS(v) ==
    MakeFS(
      {<<>>, <<"w">>, <<"h">>, <<"etc">>, <<"w", "s1">>, <<"w", "s1", "a">>,
       <<"h", "sk">>, <<"h", "sk", "s2">>}
      \cup (IF "same" \in v
            THEN {<<"w", "oc">>, <<"w", "oc", "s1">>, <<"w", "oc", "s1", "a">>}
            ELSE {})
      \cup (IF "exists" \in v THEN {<<"h", "oc">>, <<"h", "oc", "s1">>} ELSE {})
      \cup (IF "etc" \in v THEN {<<"etc", "cx">>} ELSE {}),
      (<<"w", "s1", "SKILL.md">> :> Samples[1])
      @@ (<<"h", "sk", "s2", "SKILL.md">> :> Samples[2])
      @@ (IF "same" \in v THEN <<"w", "oc", "s1", "SKILL.md">> :> Samples[1]
          ELSE NoFiles)
      @@ (IF "exists" \in v THEN <<"h", "oc", "s1", "SKILL.md">> :> Samples[4]
          ELSE NoFiles)
      @@ (IF "file" \in v THEN <<"w", "cl">> :> Content(<<Text>>) ELSE NoFiles))

InitInstall ==
    /\ \E v \in SUBSET {"same", "exists", "file", "etc"} : fs = InstallFS(v)
    /\ \E dd \in DiscoveryDirs : config = ModelConfig(dd)
    /\ op = "init"
    /\ args = NoArgs
    /\ pre = fs
    /\ res = NoRes

\* The targets the configuration names.
AllTargets(cfg) ==
    UNION {{Targets(cfg, a, pt)[i] : i \in DOMAIN Targets(cfg, a, pt)} :
             a \in DOMAIN cfg.agent_dirs, pt \in {"user", "project"}}

\* A call copy_skill_tree(source, destination_root), as install_candidates
\* makes it: a discovered skill and a configured target.
Called(o) ==
    /\ fs' = o.fs
    /\ res' = [status |-> o.status, path |-> o.path]

CopySkillTree(source, destination_root) ==
    /\ op = "init"
    /\ op' = "copy_skill_tree"
    /\ args' = [source |-> source, destination_root |-> destination_root]
    /\ pre' = fs
    /\ Called(copy_skill_tree(fs, source, destination_root))
    /\ UNCHANGED config

SkillArgs ==
    { <<>>, <<"alpha">>, <<"s2">>, <<"alpha", "alpha">>, <<"alpha", "s2">>,
      <<"nope">> }
AgentArgs == {"", "default", "claude", "codex", "ghost"}
PathTypeArgs == {"", "user", "project"}
AgentPicks == { <<>>, <<"default", "opencode">>, <<"claude">> }
PathPicks == { <<>>, <<"user">>, <<"user", "project">> }
MenuPicks == { <<>>, <<1>>, <<1, 2>>, <<2, 3>> }

\* The command lines and prompt answers of one run of `install`: an answer
\* is given only to a prompt the run can show.
InstallArgs ==
    { a \in [skill : SkillArgs, agent : AgentArgs, path_type : PathTypeArgs,
             test : BOOLEAN, picks : MenuPicks, pick_test : BOOLEAN,
             pick_agents : AgentPicks, pick_paths : PathPicks] :
        /\ a.skill # <<>> => a.picks = <<>> /\ ~a.pick_test
        /\ a.skill = <<>> => a.agent = "" /\ a.path_type = ""
        /\ a.test => ~a.pick_test
        /\ a.agent # "" => a.pick_agents = <<>>
        /\ a.path_type # "" => a.pick_paths = <<>> }

Ran(r) ==
    /\ fs' = r.fs
    /\ res' = r.res

\* One run of `skiller install`; the user ticks lines the menu has.
InstallRun(a) ==
    /\ op = "init"
    /\ \A i \in DOMAIN a.picks : a.picks[i] <= Len(Discovered(fs, config))
    /\ op' = "install"
    /\ args' = a
    /\ pre' = fs
    /\ Ran(install_run(fs, config, a))
    /\ UNCHANGED config

\* skill["path"] of the discovered skills
Sources(discovered) == {discovered[i].path : i \in DOMAIN discovered}

NextInstall ==
    \/ \E source \in Sources(Discovered(fs, config)),
          destination_root \in AllTargets(config) :
          CopySkillTree(source, destination_root)
    \/ \E a \in InstallArgs : InstallRun(a)

SpecInstall == InitInstall /\ [][NextInstall]_vars

(***************************************************************************)
(* Filesystems and inputs of the remove specification.                     *)
(***************************************************************************)
\* Installations of the skill s1 ("alpha"), by `v`: "oc_user" in ~/oc and
\* "oc_project" in ./oc (the directories of both "default" and "opencode"),
\* "cl_user" in ~/cl next to a directory s2 with no SKILL.md, "etc" in
\* /etc/cx.
RemoveFS(v) ==
    MakeFS(
      {<<>>, <<"w">>, <<"h">>, <<"etc">>, <<"h", "cx">>}
      \cup (IF "oc_user" \in v THEN {<<"h", "oc">>, <<"h", "oc", "s1">>} ELSE {})
      \cup (IF "oc_project" \in v
            THEN {<<"w", "oc">>, <<"w", "oc", "s1">>, <<"w", "oc", "s1", "a">>}
            ELSE {})
      \cup (IF "cl_user" \in v
            THEN {<<"h", "cl">>, <<"h", "cl", "s1">>, <<"h", "cl", "s2">>}
            ELSE {})
      \cup (IF "etc" \in v THEN {<<"etc", "cx">>, <<"etc", "cx", "s1">>} ELSE {}),
      (IF "oc_user" \in v THEN <<"h", "oc", "s1", "SKILL.md">> :> Samples[1]
       ELSE NoFiles)
      @@ (IF "oc_project" \in v THEN <<"w", "oc", "s1", "SKILL.md">> :> Samples[1]
          ELSE NoFiles)
      @@ (IF "cl_user" \in v THEN <<"h", "cl", "s1", "SKILL.md">> :> Samples[1]
          ELSE NoFiles)
      @@ (IF "etc" \in v THEN <<"etc", "cx", "s1", "SKILL.md">> :> Samples[1]
          ELSE NoFiles))

InitRemove ==
    /\ \E v \in SUBSET {"oc_user", "oc_project", "cl_user", "etc"} : fs = RemoveFS(v)
    /\ config = ModelConfig(<<>>)
    /\ op = "init"
    /\ args = NoArgs
    /\ pre = fs
    /\ res = NoRes

\* The command lines and menu answers of one run of `remove`: the menu is
\* shown only when no skill is named.
RemoveArgs ==
    { a \in [skill : {"", "alpha", "s1", "s2", "nope"},
             agent : {"", "default", "opencode", "claude", "codex", "ghost"},
             path_type : {"", "user", "project", "all"},
             test : BOOLEAN,
             names : {{}, {"alpha"}, {"alpha", "s2"}}] :
        /\ a.skill # "" => a.names = {}
        /\ a.skill = "" => a.agent \in {"", "claude"} /\ a.path_type = "" }

\* The names on the menu of the interactive selection.
SkillNames(skills) == {skills[i].name : i \in DOMAIN skills}

Deleted(r) ==
    /\ fs' = r.fs
    /\ res' = [report |-> r.report, message |-> r.message]

\* One run of `skiller remove`; the user ticks names the menu has.
RemoveRun(a) ==
    /\ op = "init"
    /\ a.names \subseteq SkillNames(find_installed_skills(fs, config))
    /\ op' = "remove"
    /\ args' = a
    /\ pre' = fs
    /\ Deleted(remove_run(fs, config, a))
    /\ UNCHANGED config

NextRemove == \E a \in RemoveArgs : RemoveRun(a)

SpecRemove == InitRemove /\ [][NextRemove]_vars

(***************************************************************************)
(* Filesystems and inputs of the discovery specification.                  *)
(***************************************************************************)
\* /w/a/a/.../a, n levels below /w
ChainKey(n) == <<"w">> \o [i \in 1..n |-> "a"]

\* The directories of a discovery tree: a chain below the working directory
\* with a sibling at depth 1 and at depth 3.
TreeDirs ==
    {ChainKey(n) : n \in 0..MaxTreeDepth} \cup {<<"w", "b">>, <<"w", "a", "a", "b">>}

NodeIdx(k) == Len(k) + (IF Last(k) = "b" THEN 3 ELSE 0)

\* The sample dealt to directory k; 0 for no SKILL.md.
SampleIdx(k, stride, shift) == (NodeIdx(k) * stride + shift) % (Len(Samples) + 1)

\* The tree whose directories hold the SKILL.md samples dealt from sample
\* `shift` on, `stride` apart.
DiscoveryFS(stride, shift) ==
    LET dirs == {<<>>, <<"h">>} \cup TreeDirs
        with == {d \in TreeDirs : SampleIdx(d, stride, shift) # 0}
    IN  [k \in dirs \cup {Append(d, "SKILL.md") : d \in with} |->
            IF k \in dirs THEN Dir
            ELSE File(Samples[SampleIdx(Front(k), stride, shift)])]

\* base_dir arguments: the working directory as os.getcwd() gives it, the
\* same with a trailing "/", relative, a subdirectory, one that is missing.
BaseDirs ==
    { <<"", "w">>, <<"", "w", "">>, <<".">>, <<"", "w", "a">>, <<"a", "">>,
      <<"~", "x">> }

InitDiscover ==
    /\ \E stride \in 1..3, shift \in 0..Len(Samples) :
          fs = DiscoveryFS(stride, shift)
    /\ config = ModelConfig(<<>>)
    /\ op = "init"
    /\ args = NoArgs
    /\ pre = fs
    /\ res = NoRes

\* A call discover_skills_in_tree(base_dir, max_depth).
Discover(base_dir, max_depth) ==
    /\ op = "init"
    /\ op' = "discover"
    /\ args' = [base_dir |-> base_dir, max_depth |-> max_depth]
    /\ pre' = fs
    /\ res' = [discovered |-> discover_skills_in_tree(fs, base_dir, max_depth)]
    /\ UNCHANGED <<fs, config>>

NextDiscover ==
    \E base_dir \in BaseDirs, max_depth \in 0..DefaultMaxDepth :
        Discover(base_dir, max_depth)

SpecDiscover == InitDiscover /\ [][NextDiscover]_vars

(***************************************************************************)
(* Claims about discover_skills_in_tree.                                   *)
(***************************************************************************)
\* The directory a returned entry names.
KeyOf(f, p) == Resolve(f, p).at

\* The directory at key k qualifies as a skill: its SKILL.md parses to a
\* mapping with a description.
Qualifies(f, k) ==
    /\ Append(k, "SKILL.md") \in DOMAIN f
    /\ f[Append(k, "SKILL.md")].kind = "file"
    /\ LET fm == parse_content(f[Append(k, "SKILL.md")])
       IN  fm.some /\ get(fm.map, "description") # ""

DirsBelow(f, base) ==
    {k \in DOMAIN f : f[k].kind = "dir" /\ IsPrefix(base, k)}

HasFrontmatter(c) ==
    /\ Len(c.lines) >= 2
    /\ c.lines[1].t = "delim"
    /\ \E j \in 2..Len(c.lines) : c.lines[j].t = "delim"

FrontmatterBlock(c) ==
    SubSeq(c.lines, 2,
           (CHOOSE j \in 2..Len(c.lines) :
               /\ c.lines[j].t = "delim"
               /\ \A i \in 2..(j - 1) : c.lines[i].t # "delim") - 1)

\* The frontmatter is a valid YAML mapping with a non-empty description.
Describes(c) ==
    /\ HasFrontmatter(c)
    /\ safe_load(FrontmatterBlock(c)).isMap
    /\ get(safe_load(FrontmatterBlock(c)).map, "description") # ""

\* The entry e names a directory (at key k) that is a skill, under the
\* directory's own name unless its frontmatter has a name.
IsSkillEntry(f, e, k) ==
    /\ isdir(f, e.path)
    /\ Append(k, "SKILL.md") \in DOMAIN f
    /\ f[Append(k, "SKILL.md")].kind = "file"
    /\ Describes(f[Append(k, "SKILL.md")])
    /\ e.name = (IF get(safe_load(FrontmatterBlock(f[Append(k, "SKILL.md")])).map,
                        "name") # ""
                 THEN get(safe_load(FrontmatterBlock(f[Append(k, "SKILL.md")])).map,
                          "name")
                 ELSE Last(k))
    /\ e.name # ""
    /\ e.folder_name # ""

\* C10: every entry discover_skills_in_tree returns is a directory with a
\* SKILL.md whose frontmatter is a valid YAML mapping with a non-empty
\* description; its name is the frontmatter name when there is one and the
\* directory's own name otherwise; name and folder_name are not empty.
C10_EntriesAreSkills ==
    op = "discover" =>
        \A i \in DOMAIN res.discovered :
            IsSkillEntry(pre, res.discovered[i], KeyOf(pre, res.discovered[i].path))

(***************************************************************************)
(* Claims about copy_skill_tree and the install command.                   *)
(***************************************************************************)
\* destination_root/basename(source)
DestinationOf(a) == join(expanduser(a.destination_root), <<basename(a.source)>>)

\* C1: copy_skill_tree never overwrites or modifies what exists at
\* destination_root/basename(source): when that path is the source directory
\* itself the status is "same", when it exists otherwise the status is
\* "exists", and in both cases the filesystem is left as it was; with
\* either status nothing is copied: what existed is as it was, and nothing
\* is new but directories of the destination root.
C1_NeverOverwrites ==
    op = "copy_skill_tree" =>
        /\ exists(pre, DestinationOf(args)) =>
              /\ res.status = (IF KeyOf(pre, DestinationOf(args)) = KeyOf(pre, args.source)
                               THEN "same" ELSE "exists")
              /\ fs = pre
        /\ res.status \in {"same", "exists"} =>
              /\ \A k \in DOMAIN pre : k \in DOMAIN fs /\ fs[k] = pre[k]
              /\ \A k \in DOMAIN fs \ DOMAIN pre :
                    /\ fs[k] = Dir
                    /\ IsPrefix(k, KeyOf(fs, expanduser(args.destination_root)))

\* A call that found another version of the skill at the destination and
\* left it.
C1_Witness ==
    /\ op = "copy_skill_tree"
    /\ res.status = "exists"
    /\ isdir(pre, DestinationOf(args))
    /\ pre[Append(KeyOf(pre, DestinationOf(args)), "SKILL.md")]
         # pre[Append(KeyOf(pre, args.source), "SKILL.md")]
    /\ fs = pre

\* C2: copy_skill_tree always returns a status among installed, exists, same
\* and error: no operating-system failure, the creation of the destination
\* root included, is raised to the caller.
C2_AlwaysReturnsStatus ==
    op = "copy_skill_tree" => res.status \in {"installed", "exists", "same", "error"}

\* No directory is named by two entries of `skills`.
NoDuplicates(f, skills) ==
    \A i, j \in DOMAIN skills :
        KeyOf(f, skills[i].path) = KeyOf(f, skills[j].path) => i = j

\* C3: the skills install discovers, and the candidates it installs, name
\* each skill directory at most once.
C3_Deduplicated ==
    op = "install" =>
        NoDuplicates(pre, res.discovered) /\ NoDuplicates(pre, res.candidates)

\* C4: install_candidates in test mode leaves the filesystem as it was: no
\* directory is created, no file is copied.
C4_TestModeChangesNothing ==
    op = "install" /\ res.called /\ res.test_mode => fs = pre

\* A test run that would install below a destination root that is missing.
C4_Witness ==
    /\ op = "install" /\ res.called /\ res.test_mode
    /\ fs = pre
    /\ \E i \in DOMAIN res.report :
          /\ res.report[i].what = "Would install"
          /\ ~exists(pre, Front(res.report[i].target))

\* The (skill, agent, path type, target) entries a report lists under `what`.
ReportedAs(report, what) ==
    {[name |-> report[i].name, agent |-> report[i].agent,
      path_type |-> report[i].path_type, target |-> report[i].target] :
        i \in {n \in DOMAIN report : report[n].what = what}}

\* The test report lists as "Would install" what the normal run `normal`
\* lists as "Installed", when no copy of the normal run failed.
Forecasts(test_report, normal) ==
    (normal.res.ret # "raised"
     /\ ReportedAs(normal.res.report, "Failed to install") = {})
    => ReportedAs(test_report, "Would install")
         = ReportedAs(normal.res.report, "Installed")

\* C5: from the same filesystem and with the same candidates, agents and
\* path types, the entries install --test reports as "Would install" are
\* the entries a normal install reports as "Installed".
C5_TestForecastsInstall ==
    op = "install" /\ res.called /\ res.test_mode =>
        Forecasts(res.report,
                  install_run(pre, config,
                              [args EXCEPT !.test = FALSE, !.pick_test = FALSE]))

\* C6: install_candidates returns True exactly when an installation was
\* made (normal mode) or would be made (test mode).
C6_TrueIffInstalled ==
    op = "install" /\ res.called /\ res.ret \in {"True", "False"} =>
        (res.ret = "True"
         <=> ReportedAs(res.report,
                        IF res.test_mode THEN "Would install" ELSE "Installed") # {})

(***************************************************************************)
(* Claims about the remove command.                                        *)
(***************************************************************************)
\* C7: remove --test deletes nothing: the filesystem is left as it was.
C7_TestModeDeletesNothing ==
    op = "remove" /\ args.test => fs = pre

\* A test run that reported a removal of a directory that is still there.
C7_Witness ==
    /\ op = "remove" /\ args.test
    /\ \E i \in DOMAIN res.report :
          /\ res.report[i].status = "test"
          /\ isdir(fs, res.report[i].full_path)
          /\ fs[KeyOf(fs, res.report[i].full_path)] = pre[KeyOf(pre, res.report[i].full_path)]

\* The installations _find_installed_skills attributes to `agent`.
InstallationsOf(f, cfg, agent) ==
    {x \in {find_installed_skills(f, cfg)[i] :
               i \in DOMAIN find_installed_skills(f, cfg)} : x.agent = agent}

\* C8: remove <skill> --agent A leaves the installations of every other
\* configured agent as they were.
C8_OtherAgentsUnchanged ==
    op = "remove" /\ args.skill # "" /\ args.agent # "" =>
        \A b \in DOMAIN config.agent_dirs \ {args.agent} :
            InstallationsOf(fs, config, b) = InstallationsOf(pre, config, b)

(***************************************************************************)
(* core.parse_frontmatter on its own: files of at most MaxLines lines.     *)
(***************************************************************************)
\* The lines a file is made of.
LineKinds == {Delim, KV("name", "alpha"), KV("description", "d"), Item, Bad, Text}

\* The files of at most n lines, with and without a final "\n".
Contents(n) ==
    {[lines |-> ls, nl |-> nl] :
        ls \in UNION {[1..k -> LineKinds] : k \in 0..n}, nl \in BOOLEAN}

\* The file /w/f holds c; /w/d is a directory, /w/x is missing.
ParseFS(c) ==
    MakeFS({<<>>, <<"w">>, <<"w", "d">>}, <<"w", "f">> :> c)

\* file_path arguments: the file by its absolute and by its relative path, a
\* directory (open() raises IsADirectoryError), a missing file.
FilePaths == { <<"", "w", "f">>, <<"f">>, <<"", "w", "d">>, <<"", "w", "x">> }

InitParse ==
    /\ \E c \in Contents(MaxLines) : fs = ParseFS(c)
    /\ config = ModelConfig(<<>>)
    /\ op = "init"
    /\ args = NoArgs
    /\ pre = fs
    /\ res = NoRes

\* A call parse_frontmatter(file_path).
ParseFrontmatter(file_path) ==
    /\ op = "init"
    /\ op' = "parse_frontmatter"
    /\ args' = [file_path |-> file_path]
    /\ pre' = fs
    /\ res' = [fm |-> parse_frontmatter(fs, file_path)]
    /\ UNCHANGED <<fs, config>>

NextParse == \E file_path \in FilePaths : ParseFrontmatter(file_path)

SpecParse == InitParse /\ [][NextParse]_vars

(***************************************************************************)
(* Claims about parse_frontmatter.                                         *)
(***************************************************************************)
\* What the frontmatter of the file with content c is: the mapping its
\* block is YAML for, none when it has no block or the block is no mapping.
FrontmatterOf(c) ==
    IF HasFrontmatter(c) /\ safe_load(FrontmatterBlock(c)).isMap
    THEN Some(safe_load(FrontmatterBlock(c)).map)
    ELSE None

\* C11: parse_frontmatter returns the parsed mapping exactly when the first
\* line of the file is "---", a later line is "---" and the text between the
\* two is YAML for a mapping; in every other case, an unreadable file
\* included, it returns None.
C11_MappingIffDelimited ==
    op = "parse_frontmatter" =>
        res.fm = (IF IsKind(pre, Resolve(pre, args.file_path), "file")
                  THEN FrontmatterOf(pre[KeyOf(pre, args.file_path)])
                  ELSE None)

(***************************************************************************)
(* config.py: the values json.load returns.  A value has a type t; a str   *)
(* has its text s, a list has its items, a dict has its (key, value) pairs *)
(* in insertion order as items, each key a value itself.                   *)
(***************************************************************************)
Null == [t |-> "null", s |-> "", items |-> <<>>]
Num == [t |-> "int", s |-> "", items |-> <<>>]
Str(x) == [t |-> "str", s |-> x, items |-> <<>>]
List(xs) == [t |-> "list", s |-> "", items |-> xs]
Dict(pairs) == [t |-> "dict", s |-> "", items |-> pairs]
Pair(key, value) == [k |-> key, v |-> value]

\* key in d, d[key]
Has(d, key) == \E i \in DOMAIN d.items : d.items[i].k = Str(key)
Lookup(d, key) == d.items[CHOOSE i \in DOMAIN d.items : d.items[i].k = Str(key)].v

\* A ConfigValidationError, or a message validate_config appends itself.
Err(msg, field, index) == [msg |-> msg, field |-> field, index |-> index]

\* The smallest member of a non-empty set of numbers.
Min(S) == CHOOSE i \in S : \A j \in S : i <= j

NotStrings_First(value) ==
    {i \in DOMAIN value.items \cap {1} : value.items[i].t # "str"}

\* _validate_is_list_of_strings: what it raises, <<>> when it returns.
NotStrings(value) == {i \in DOMAIN value.items : value.items[i].t # "str"}

validate_is_list_of_strings(value, field_name) ==
    IF value.t # "list" THEN <<Err("must be a list", field_name, 0)>>
    ELSE IF NotStrings(value) # {}
    THEN <<Err("must be a string", field_name, Min(NotStrings(value)))>>
    ELSE <<>>

\* The keys of agent_config that are not allowed.
UnknownKeys(agent_config) ==
    {i \in DOMAIN agent_config.items :
        agent_config.items[i].k \notin {Str("user"), Str("project")}}

\* The `for path_type in ["user", "project"]` loop of _validate_agent_dir.
validate_paths(agent_name, agent_config, path_type) ==
    IF Has(agent_config, path_type) /\ Lookup(agent_config, path_type).t # "null"
    THEN validate_is_list_of_strings(Lookup(agent_config, path_type),
                                     <<agent_name, path_type>>)
    ELSE <<>>

\* _validate_agent_dir: what it raises, <<>> when it returns.
validate_agent_dir(agent_name, agent_config) ==
    IF agent_config.t # "dict"
    THEN <<Err("must be a dict", <<agent_name>>, 0)>>
    ELSE IF UnknownKeys(agent_config) # {}
    THEN <<Err("has unknown key", <<agent_name>>, Min(UnknownKeys(agent_config)))>>
    ELSE IF validate_paths(agent_name, agent_config, "user") # <<>>
    THEN validate_paths(agent_name, agent_config, "user")
    ELSE validate_paths(agent_name, agent_config, "project")

\* The `for agent_name, agent_config in agent_dirs.items()` loop.
RECURSIVE validate_agents(_)
validate_agents(pairs) ==
    IF pairs = <<>> THEN <<>>
    ELSE IF Head(pairs).k.t # "str"
    THEN <<Err("agent_dirs keys must be strings", <<"agent_dirs">>, 0)>>
    ELSE IF validate_agent_dir(Head(pairs).k.s, Head(pairs).v) # <<>>
    THEN validate_agent_dir(Head(pairs).k.s, Head(pairs).v)
    ELSE validate_agents(Tail(pairs))

\* _validate_agent_dirs: what it raises, <<>> when it returns.
validate_agent_dirs(agent_dirs) ==
    IF agent_dirs.t # "dict" THEN <<Err("must be a dict", <<"agent_dirs">>, 0)>>
    ELSE IF agent_dirs.items = <<>>
    THEN <<Err("cannot be empty", <<"agent_dirs">>, 0)>>
    ELSE validate_agents(agent_dirs.items)

\* The errors of the optional list field `key`.
validate_optional(cfg, key) ==
    IF Has(cfg, key) THEN validate_is_list_of_strings(Lookup(cfg, key), <<key>>)
    ELSE <<>>

\* The errors of the required field agent_dirs.
validate_required(cfg) ==
    IF ~Has(cfg, "agent_dirs")
    THEN <<Err("Missing required field", <<"agent_dirs">>, 0)>>
    ELSE validate_agent_dirs(Lookup(cfg, "agent_dirs"))

\* The `for key in config.keys()` loop: one error per key that is not
\* allowed.
RECURSIVE validate_keys(_)
validate_keys(pairs) ==
    IF pairs = <<>> THEN <<>>
    ELSE (IF Head(pairs).k \in {Str("custom_subdirs"), Str("discovery_dirs"),
                                Str("agent_dirs")}
          THEN <<>>
          ELSE <<Err("Unknown configuration key", <<>>, 0)>>)
         \o validate_keys(Tail(pairs))

\* The tuple validate_config returns for the errors it collected.
Verdict(errors) == [is_valid |-> errors = <<>>, errors |-> errors]

validate_config(cfg) ==
    IF cfg.t # "dict"
    THEN [is_valid |-> FALSE,
          errors |-> <<Err("Configuration must be a dict", <<>>, 0)>>]
    ELSE Verdict(validate_optional(cfg, "custom_subdirs")
                 \o validate_optional(cfg, "discovery_dirs")
                 \o validate_required(cfg)
                 \o validate_keys(cfg.items))

(***************************************************************************)
(* config.load_config.  A JSON file is a file of one line that holds the   *)
(* document; any other content is not JSON.                                *)
(***************************************************************************)
\* os.path.isfile
isfile(f, p) == IsKind(f, Resolve(f, p), "file")

\* os.path.dirname(p): what precedes the last "/", its trailing "/"
\* stripped unless it is nothing but "/".
dirname(p) ==
    IF \A i \in 1..(Len(p) - 1) : p[i] = "" THEN Append(Front(p), "")
    ELSE rstrip(Append(Front(p), ""))

\* __file__ of config.py
ModuleFile == <<"", "pkg", "config.py">>

\* json.load of the file at node: ok is FALSE for a JSONDecodeError.
json_load(node) ==
    IF Len(node.lines) = 1 /\ node.lines[1].t \in {"null", "int", "str", "list", "dict"}
    THEN [ok |-> TRUE, value |-> node.lines[1]]
    ELSE [ok |-> FALSE, value |-> Null]

\* DEFAULT_CONFIG, scaled down as ModelConfig is.
DEFAULT_CONFIG ==
    Dict(<< Pair(Str("custom_subdirs"), List(<<Str("dev")>>)),
            Pair(Str("discovery_dirs"), List(<<>>)),
            Pair(Str("agent_dirs"),
                 Dict(<< Pair(Str("default"),
                              Dict(<< Pair(Str("user"), List(<<Str("~/oc")>>)),
                                      Pair(Str("project"), List(<<Str("oc")>>)) >>)),
                         Pair(Str("opencode"),
                              Dict(<< Pair(Str("user"), List(<<Str("~/oc")>>)),
                                      Pair(Str("project"), List(<<Str("oc")>>)) >>)),
                         Pair(Str("claude"),
                              Dict(<< Pair(Str("user"), List(<<Str("~/cl")>>)),
                                      Pair(Str("project"), List(<<Str("cl")>>)) >>)),
                         Pair(Str("codex"),
                              Dict(<< Pair(Str("user"),
                                           List(<<Str("~/cx"), Str("/etc/cx")>>)),
                                      Pair(Str("project"), List(<<Str("cx")>>)) >>))
                      >>)) >>)

\* How load_config ends: it returns config, or the process ends by
\* sys.exit(1) ("exit") or by an exception nothing catches ("raised").
\* source is the file the configuration came from (<<>> for the builtin
\* defaults); log holds the warnings printed, the directories the upward
\* search looked in and the files opened, each in order.
Log(warnings, searched, read) ==
    [warnings |-> warnings, searched |-> searched, read |-> read]

Ended(outcome, cfg, source, log) ==
    [outcome |-> outcome, config |-> cfg, source |-> source, log |-> log]

\* validate_config_or_exit(config, source)
validate_config_or_exit(cfg, source, log) ==
    IF validate_config(cfg).is_valid
    THEN Ended("returned", cfg, source, log)
    ELSE Ended("exit", Null, source, log)

\* A JSONDecodeError falls through to the builtin defaults.
Decoded_Defaults(parsed, source, log) ==
    IF parsed.ok THEN validate_config_or_exit(parsed.value, source, log)
    ELSE validate_config_or_exit(DEFAULT_CONFIG, <<>>, log)

\* `config = json.load(f); return validate_config_or_exit(config, ...)` with
\* its `except json.JSONDecodeError`, parsed being what json.load did.
Decoded(parsed, source, log) ==
    IF parsed.ok THEN validate_config_or_exit(parsed.value, source, log)
    ELSE Ended("exit", Null, source, log)

\* open(path), json.load and validation of a file that exists.
LoadFrom(f, path, log) ==
    Decoded(json_load(f[Resolve(f, path).at]), path,
            Log(log.warnings, log.searched, Append(log.read, path)))

\* The packaged configuration: open() raises FileNotFoundError for a
\* missing file, which selects the builtin defaults, and IsADirectoryError,
\* which nothing catches, for a directory.
LoadPackaged(f, packaged, log) ==
    IF ~exists(f, packaged)
    THEN validate_config_or_exit(
             DEFAULT_CONFIG, <<>>,
             Log(Append(log.warnings, "Packaged configuration not found"),
                 log.searched, log.read))
    ELSE IF ~isfile(f, packaged)
    THEN Ended("raised", Null, packaged, log)
    ELSE LoadFrom(f, packaged, log)

Candidates_FlatFirst(cur) ==
    << join(cur, <<"skiller_config.json">>),
       join(cur, <<"skiller", "skiller_config.json">>) >>

\* The candidates of the directory cur, in the order they are tried.
Candidates(cur) ==
    << join(cur, <<"skiller", "skiller_config.json">>),
       join(cur, <<"skiller_config.json">>) >>

\* One pass of the `while True` loop in the directory cur, and the passes
\* after it.
RECURSIVE SearchUp(_, _, _)
SearchIn(f, cur, cands, log) ==
    IF isfile(f, cands[1]) THEN LoadFrom(f, cands[1], log)
    ELSE IF isfile(f, cands[2]) THEN LoadFrom(f, cands[2], log)
    ELSE IF cur = abspath(<<"", "">>)
    THEN LoadPackaged(f, join(dirname(ModuleFile), <<"skiller_config.json">>), log)
    ELSE SearchUp(f, dirname(cur), log)

SearchUp(f, cur, log) ==
    SearchIn(f, cur, Candidates(cur),
             Log(log.warnings, Append(log.searched, cur), log.read))

\* load_config with SKILLER_CONFIG = explicit (<<"">>, the empty string,
\* when it is not set).
load_config(f, explicit) ==
    IF explicit # <<"">> /\ isfile(f, explicit)
    THEN LoadFrom(f, explicit, Log(<<>>, <<>>, <<>>))
    ELSE SearchUp(f, abspath(Cwd),
                  Log(IF explicit # <<"">>
                      THEN <<"SKILLER_CONFIG is set but the file does not exist">>
                      ELSE <<>>, <<>>, <<>>))

(***************************************************************************)
(* load_config over the filesystems that hold, at each place a             *)
(* configuration is looked for, nothing, a directory, or a file with a     *)
(* valid configuration, an invalid one or no JSON.                         *)
(***************************************************************************)
PackagedKey == <<"pkg", "skiller_config.json">>
ExplicitKey == <<"w", "e.json">>
SearchKeys == { <<"w", "skiller", "skiller_config.json">>,
                <<"w", "skiller_config.json">>,
                <<"skiller", "skiller_config.json">>,
                <<"skiller_config.json">> }
Slots == SearchKeys \cup {ExplicitKey, PackagedKey}
SlotKinds == {"none", "dir", "valid", "invalid", "nonjson"}

\* A valid configuration that names the place it is stored at.
ConfigAt(k) ==
    Dict(<< Pair(Str("discovery_dirs"), List([i \in 1..Len(k) |-> Str(k[i])])),
            Pair(Str("agent_dirs"),
                 Dict(<< Pair(Str("opencode"),
                              Dict(<< Pair(Str("user"), Null),
                                      Pair(Str("project"), List(<<Str("oc")>>))
                                   >>)) >>)) >>)

Document(k, kind) ==
    CASE kind = "valid" -> Content(<<ConfigAt(k)>>)
      [] kind = "invalid" -> Content(<<Dict(<<Pair(Str("agent_dirs"), Dict(<<>>))>>)>>)
      [] OTHER -> Content(<<Bad>>)

LoadDirs == { <<>>, <<"w">>, <<"pkg">>, <<"skiller">>, <<"w", "skiller">> }

LoadFS(placed) ==
    MakeFS(LoadDirs \cup {k \in Slots : placed[k] = "dir"},
           [k \in {s \in Slots : placed[s] \notin {"none", "dir"}} |->
               Document(k, placed[k])])

\* The packaged file is installed with the module: it is a file or missing.
Placements == {placed \in [Slots -> SlotKinds] : placed[PackagedKey] # "dir"}

Explicits == { <<"">>, <<"", "w", "e.json">>, <<"e.json">> }

InitLoad ==
    /\ \E placed \in Placements : fs = LoadFS(placed)
    /\ config = ModelConfig(<<>>)
    /\ op = "init"
    /\ args = NoArgs
    /\ pre = fs
    /\ res = NoRes

LoadConfig(explicit) ==
    /\ op = "init"
    /\ op' = "load_config"
    /\ args' = [explicit |-> explicit]
    /\ pre' = fs
    /\ res' = load_config(fs, explicit)
    /\ UNCHANGED <<fs, config>>

NextLoad == \E explicit \in Explicits : LoadConfig(explicit)

SpecLoad == InitLoad /\ [][NextLoad]_vars

(***************************************************************************)
(* The sources of a configuration, as keys of the filesystem, in the order *)
(* of precedence: the file SKILLER_CONFIG names, the two candidates of     *)
(* each directory from the current one up to the root, the packaged file.  *)
(***************************************************************************)
IsFileAt(f, k) == k \in DOMAIN f /\ f[k].kind = "file"

RECURSIVE Upward(_)
Upward(dir) ==
    << dir \o <<"skiller", "skiller_config.json">>, dir \o <<"skiller_config.json">> >>
    \o (IF dir = <<>> THEN <<>> ELSE Upward(Front(dir)))

Precedence(f, explicit) ==
    (IF explicit # <<"">> /\ exists(f, explicit) THEN <<KeyOf(f, explicit)>> ELSE <<>>)
    \o Upward(Tail(Cwd)) \o <<PackagedKey>>

Present(f, order) == {i \in 1..Len(order) : IsFileAt(f, order[i])}

\* The result is the builtin defaults, and no file was opened.
FromDefaults(r) ==
    /\ r.outcome = "returned"
    /\ r.config = DEFAULT_CONFIG
    /\ r.source = <<>>
    /\ r.log.read = <<>>

\* The result comes from the file at key k, the only file opened.
FromFile(f, r, k) ==
    /\ r.source # <<>>
    /\ exists(f, r.source)
    /\ KeyOf(f, r.source) = k
    /\ r.log.read = <<r.source>>
    /\ r.outcome = "returned" => r.config = f[k].lines[1]

FromFirst(f, r, order, present) ==
    IF present = {} THEN FromDefaults(r) ELSE FromFile(f, r, order[Min(present)])

MissingExplicit(f, explicit) == explicit # <<"">> /\ ~isfile(f, explicit)

\* C12: load_config takes the configuration from the first source that
\* exists as a file, in the order SKILLER_CONFIG, then skiller/skiller_config.json
\* before skiller_config.json in each directory from the current one up to
\* the root, then the packaged file, then the builtin defaults; it opens no
\* other file; and a SKILLER_CONFIG naming a missing file produces exactly a
\* warning, printed first, before the lookup continues.
C12_FirstExistingSource ==
    op = "load_config" =>
        /\ FromFirst(pre, res, Precedence(pre, args.explicit),
                     Present(pre, Precedence(pre, args.explicit)))
        /\ MissingExplicit(pre, args.explicit) <=>
               /\ res.log.warnings # <<>>
               /\ res.log.warnings[1] = "SKILLER_CONFIG is set but the file does not exist"

\* A missing SKILLER_CONFIG file was passed over for a nearer candidate in
\* the parent directory, found although a directory stands in the place of
\* the first candidate.
C12_Witness ==
    /\ op = "load_config"
    /\ MissingExplicit(pre, args.explicit)
    /\ ~IsFileAt(pre, <<"w", "skiller", "skiller_config.json">>)
    /\ ~IsFileAt(pre, <<"w", "skiller_config.json">>)
    /\ IsFileAt(pre, <<"skiller", "skiller_config.json">>)
    /\ IsFileAt(pre, <<"skiller_config.json">>)
    /\ IsFileAt(pre, PackagedKey)
    /\ res.outcome = "returned"
    /\ res.source = <<"", "skiller", "skiller_config.json">>
    /\ res.config = ConfigAt(<<"skiller", "skiller_config.json">>)

\* The directories from the current one up to the root, nearest first.
UpChain == [i \in 1..Len(Cwd) |->
               IF i = Len(Cwd) THEN <<"", "">> ELSE SubSeq(Cwd, 1, Len(Cwd) - i + 1)]

\* The file at key k holds no JSON, or JSON that validate_config rejects.
Unusable(f, k) ==
    ~json_load(f[k]).ok \/ ~validate_config(json_load(f[k]).value).is_valid

\* The first source that exists is unusable and the process exits on it.
ExitsOn(f, r, order, present) ==
    (present # {} /\ Unusable(f, order[Min(present)])) =>
        /\ r.outcome = "exit"
        /\ KeyOf(f, r.source) = order[Min(present)]
        /\ r.log.read = <<r.source>>

\* C13: load_config returns a configuration validate_config accepts or ends
\* the process by sys.exit(1); when the first source that exists holds
\* invalid JSON or fails validation it exits on that source, having opened
\* no other; and the upward search looks in the directories from the
\* current one towards the root, each once, and no further.
C13_ValidOrExit ==
    op = "load_config" =>
        /\ res.outcome \in {"returned", "exit"}
        /\ res.outcome = "returned" => validate_config(res.config).is_valid
        /\ ExitsOn(pre, res, Precedence(pre, args.explicit),
                   Present(pre, Precedence(pre, args.explicit)))
        /\ Len(res.log.searched) <= Len(UpChain)
        /\ \A i \in 1..Len(res.log.searched) : res.log.searched[i] = UpChain[i]

\* The search reached the root, where the first candidate is a file that
\* fails validation: the process exits although valid files follow.
C13_Witness ==
    /\ op = "load_config"
    /\ res.log.searched = UpChain
    /\ IsFileAt(pre, <<"skiller", "skiller_config.json">>)
    /\ json_load(pre[<<"skiller", "skiller_config.json">>]).ok
    /\ Unusable(pre, <<"skiller", "skiller_config.json">>)
    /\ IsFileAt(pre, <<"skiller_config.json">>)
    /\ ~Unusable(pre, <<"skiller_config.json">>)
    /\ IsFileAt(pre, PackagedKey)
    /\ ~Unusable(pre, PackagedKey)
    /\ res.outcome = "exit"
    /\ res.source = <<"", "skiller", "skiller_config.json">>

(***************************************************************************)
(* validate_config over configurations built from lists of up to MaxItems  *)
(* items, agent configurations with and without each key, and top-level    *)
(* dicts with and without each field.                                      *)
(***************************************************************************)
\* Marks a key that the dict does not have.
Absent == [t |-> "absent", s |-> "", items |-> <<>>]
Opt(key, value) == IF value = Absent THEN <<>> ELSE <<Pair(Str(key), value)>>

ItemValues == {Str("a"), Num, Null}
Lists(n) == {List(xs) : xs \in UNION {[1..k -> ItemValues] : k \in 0..n}}
PathValues(n) == Lists(n) \cup {Absent, Null, Num, Str("a"), Dict(<<>>)}
AgentConfigs(n) ==
    { Dict(Opt("user", u) \o Opt("project", p) \o Opt("extra", x)) :
        u \in PathValues(n), p \in {Absent, Null, Num, List(<<Str("b")>>)},
        x \in {Absent, Null} }
    \cup {Null, Str("a"), List(<<>>)}
FirstAgents ==
    { Dict(<<>>), Dict(Opt("user", List(<<Str("a")>>))), Dict(Opt("user", Num)), Num }
AgentDirs(n) ==
    {Null, List(<<>>), Dict(<<>>)}
    \cup { Dict(<<Pair(Str("opencode"), a)>>) : a \in AgentConfigs(n) }
    \cup { Dict(<<Pair(Num, a)>>) : a \in FirstAgents }
    \cup { Dict(<<Pair(Str("opencode"), a), Pair(Str("claude"), c)>>) :
             a \in FirstAgents, c \in AgentConfigs(n) }
Configs(n) ==
    { Dict(Opt("custom_subdirs", cs) \o Opt("discovery_dirs", dd)
           \o Opt("agent_dirs", ad) \o extra) :
        cs \in {Absent, List(<<Str("dev")>>), List(<<Str("dev"), Num>>), Str("dev")},
        dd \in {Absent, List(<<>>), Num},
        ad \in AgentDirs(n) \cup {Absent},
        extra \in {<<>>, <<Pair(Str("extra"), Null)>>, <<Pair(Num, Null)>>} }
    \cup {Null, Num, Str("a"), List(<<>>)}

InitValidate ==
    /\ fs = MakeFS({<<>>}, NoFiles)
    /\ config = ModelConfig(<<>>)
    /\ op = "init"
    /\ \E c \in Configs(MaxItems) : args = [config |-> c]
    /\ pre = fs
    /\ res = NoRes

ValidateConfig ==
    /\ op = "init"
    /\ op' = "validate_config"
    /\ res' = validate_config(args.config)
    /\ UNCHANGED <<fs, config, args, pre>>

NextValidate == ValidateConfig

SpecValidate == InitValidate /\ [][NextValidate]_vars

\* What the configuration must be: lists of strings, paths that are null or
\* a list of strings, agent configurations, agent_dirs and the whole.
IsStrings(v) == v.t = "list" /\ \A i \in DOMAIN v.items : v.items[i].t = "str"
IsPaths(v) == v.t = "null" \/ IsStrings(v)
IsAgentConfig(v) ==
    /\ v.t = "dict"
    /\ \A i \in DOMAIN v.items :
          v.items[i].k \in {Str("user"), Str("project")} /\ IsPaths(v.items[i].v)
IsAgentDirs(v) ==
    /\ v.t = "dict"
    /\ v.items # <<>>
    /\ \A i \in DOMAIN v.items : v.items[i].k.t = "str" /\ IsAgentConfig(v.items[i].v)
Acceptable(c) ==
    /\ c.t = "dict"
    /\ \E i \in DOMAIN c.items : c.items[i].k = Str("agent_dirs")
    /\ \A i \in DOMAIN c.items :
          \/ c.items[i].k = Str("agent_dirs") /\ IsAgentDirs(c.items[i].v)
          \/ /\ c.items[i].k \in {Str("custom_subdirs"), Str("discovery_dirs")}
             /\ IsStrings(c.items[i].v)

\* C14: validate_config returns (True, []) exactly when the configuration
\* is a dict with agent_dirs a non-empty dict from string names to dicts
\* whose only keys are user and project with values null or lists of
\* strings, with custom_subdirs and discovery_dirs, when present, lists of
\* strings, and with no other key; otherwise it returns False with at least
\* one error.
C14_ValidIffWellFormed ==
    op = "validate_config" =>
        /\ res.is_valid <=> Acceptable(args.config)
        /\ res.is_valid <=> res.errors = <<>>

\* A configuration with custom_subdirs and two agents, the second with a
\* list of MaxItems strings as user and null as project, is accepted.
SecondAgent(c) == Lookup(c, "agent_dirs").items[2].v

C14_Witness ==
    /\ op = "validate_config"
    /\ res.is_valid
    /\ Has(args.config, "custom_subdirs")
    /\ Has(args.config, "agent_dirs")
    /\ Len(Lookup(args.config, "agent_dirs").items) = 2
    /\ Len(SecondAgent(args.config).items) = 2
    /\ SecondAgent(args.config).items[1].v.t = "list"
    /\ Len(SecondAgent(args.config).items[1].v.items) = MaxItems
    /\ SecondAgent(args.config).items[2].v.t = "null"

=============================================================================
